---- MODULE Spec2Model ----
(***************************************************************************)
(* Connection lifecycle and credential resolution of django_mail_admin:    *)
(* the O365 and Gmail OAuth2 backends (backends.py), the O365 connection   *)
(* (o365_utils.py), the per-thread ConnectionHandler (connections.py) and  *)
(* the test_connection health checks (models/configurations.py).           *)
(***************************************************************************)
EXTENDS Integers, Sequences, FiniteSets, TLC

VARIABLES
    db,          \* Outbox records visible to the backend (read-only)
    mapping,     \* EmailAddressOAuthMapping: send_as_email -> oauth_username
    backend,     \* the backend instance send_messages runs on
    pc,          \* position of send_messages: idle / loop / done / raised
    queue,       \* sorted messages still to be processed
    sent_count,  \* sent_count (O365) / num_sent (Gmail)
    result,      \* value returned by send_messages, None while running
    raisedExc,   \* exception propagated by send_messages, "none" otherwise
    okSends,     \* adapter sends of this batch that reported success
    handed,      \* messages of this batch handed to the transport / mail API
    live,        \* connections opened by the backend and not yet released
    it,          \* what the last loop iteration did
    conns,       \* ConnectionHandler._connections: per thread, the cached adapters in insertion order
    hist,        \* the two latest lookups since the last ConnectionHandler.close()
    hc,          \* the latest test_connection call
    clock,       \* the current time, now()
    mailbox,     \* the Mailbox record being polled
    inbox,       \* receipt times of the messages on the mail server
    poll,        \* the latest get_new_mail call
    res,         \* per backend class, the latest configuration resolution
    delivered,   \* receipt times of the messages get_new_mail has returned so far
    lock,        \* owner of the shared backend's _lock, None when free
    sending,     \* the thread inside send_messages of the shared backend
    closing,     \* the thread calling close() on the shared backend
    goog         \* the connect of a GmailImapTransport and its google_api_get calls

dvars == <<db, mapping, backend, pc, queue, sent_count, result, raisedExc,
           okSends, handed, live, it>>

cvars == <<conns, hist, hc>>

pvars == <<clock, mailbox, inbox, poll, delivered>>

rvars == <<res>>

lvars == <<lock, sending, closing>>

gvars == <<goog>>

vars == <<dvars, cvars, pvars, rvars, lvars, gvars>>

----------------------------------------------------------------------------
(* Bounds *)

MaxBatch == 3

MaxInst == 2

MaxCloses == 1

MaxClock == 3

MaxOutboxes == 3

MaxSaved == 1

\* the counters of requests, refreshes and loop rounds stop counting here
MaxRequests == 3

MaxRounds == 3

----------------------------------------------------------------------------
(* Values *)

None == "None"

Addr == {"a", "b", "o"}

Senders == {"a", "b"}

Rank(x) == CASE x = "a" -> 1 [] x = "b" -> 2 [] x = "o" -> 3 [] OTHER -> 0

NoConn == [held |-> FALSE, ident |-> None, state |-> "none"]

NewBackend(kind, fs) ==
    [kind |-> kind, conn |-> NoConn, from_email |-> None,
     from_oauth_user |-> None, configuration_id |-> 0, host |-> None,
     fail_silently |-> fs]

\* Outbox records: email_host_user, the family named in email_host
\* ("office365" in it, else "gmail" in it, else plain smtp), and whether
\* email_host parses with the office365 scheme.
OutboxUniverse ==
    { [id |-> 1, user |-> "a", family |-> "gmail", schemeOk |-> TRUE],
      [id |-> 2, user |-> "b", family |-> "gmail", schemeOk |-> TRUE],
      [id |-> 3, user |-> "o", family |-> "gmail", schemeOk |-> TRUE],
      [id |-> 4, user |-> "a", family |-> "o365", schemeOk |-> TRUE],
      [id |-> 5, user |-> "b", family |-> "o365", schemeOk |-> FALSE],
      [id |-> 6, user |-> "o", family |-> "o365", schemeOk |-> TRUE],
      [id |-> 7, user |-> "a", family |-> "smtp", schemeOk |-> TRUE],
      [id |-> 8, user |-> "o", family |-> "smtp", schemeOk |-> TRUE] }

\* send-as mappings: a visible sender may map to the oauth account "o"
Mappings == { m \in [Addr -> {None, "o"}] : m["o"] = None }

----------------------------------------------------------------------------
(* Credential resolution *)

\* the sender itself, whatever the mappings say
ResolveIdentityNoMapping(m, sender) == sender

\* EmailAddressOAuthMapping.objects.filter(send_as_email=from_email)
\*     .values_list('oauth_username', flat=True).first() or from_email
ResolveIdentity(m, sender) == IF m[sender] # None THEN m[sender] ELSE sender

MatchingOutboxes(d, family, user) ==
    { o \in d : o.family = family /\ o.user = user }

FirstOutbox(S) == CHOOSE o \in S : \A p \in S : o.id <= p.id

----------------------------------------------------------------------------
(* O365Backend *)

O365Close(b) ==
    IF b.conn.held
    THEN [b |-> [b EXCEPT !.conn = NoConn, !.from_email = None,
                          !.configuration_id = 0],
          exc |-> "none", rel |-> 1]
    ELSE [b |-> b, exc |-> "none", rel |-> 0]

\* construct: what O365Connection(...) yields: "auth" (account, authenticated),
\* "unauth" (account, not authenticated), "none" (no account: the TypeError /
\* ValueError of _get_auth_info / _connect was swallowed), "raise".
O365Open(b, d, construct) ==
    LET cfgs == MatchingOutboxes(d, "o365", b.from_email) IN
    IF cfgs = {} THEN [b |-> b, exc |-> "ValueError", rel |-> 0, acq |-> 0]
    ELSE
      LET cfg == FirstOutbox(cfgs) IN
      IF b.conn.held /\ b.configuration_id = cfg.id
      THEN [b |-> b, exc |-> "none", rel |-> 0, acq |-> 0]
      ELSE
        LET cl == IF b.conn.held THEN O365Close(b)
                  ELSE [b |-> b, exc |-> "none", rel |-> 0]
            b1 == IF b.conn.held
                  THEN [cl.b EXCEPT !.from_email = cfg.user,
                                    !.configuration_id = cfg.id]
                  ELSE b
        IN
        IF ~cfg.schemeOk
        THEN [b |-> b1, exc |-> "ValueError", rel |-> cl.rel, acq |-> 0]
        ELSE IF construct = "raise"
        THEN [b |-> O365Close(b1).b, exc |-> "Exception", rel |-> cl.rel, acq |-> 0]
        ELSE [b |-> [b1 EXCEPT !.conn = [held |-> TRUE, ident |-> b1.from_email,
                                         state |-> construct]],
              exc |-> "none", rel |-> cl.rel, acq |-> 1]

O365ConnSendNoAuthCheck(conn, fs, api) ==
    IF api = "ok" THEN [ret |-> 1, exc |-> "none", handed |-> 1]
    ELSE IF fs THEN [ret |-> 0, exc |-> "none", handed |-> 1]
    ELSE [ret |-> 0, exc |-> "APIError", handed |-> 1]

\* O365Connection.send_messages([msg], fail_silently); api is the outcome of
\* the mail API calls for the message ("ok" / "raise").
O365ConnSend(conn, fs, api) ==
    IF conn.state # "auth" /\ ~fs
    THEN [ret |-> 0, exc |-> "O365NotAuthenticated", handed |-> 0]
    ELSE IF conn.state = "none"
    THEN [ret |-> 0, exc |-> "AttributeError", handed |-> 0]
    ELSE IF api = "ok"
    THEN [ret |-> 1, exc |-> "none", handed |-> 1]
    ELSE IF fs
    THEN [ret |-> 0, exc |-> "none", handed |-> 1]
    ELSE [ret |-> 0, exc |-> "APIError", handed |-> 1]

----------------------------------------------------------------------------
(* GmailOAuth2Backend *)

\* _initialize_connection(from_email)
GmailInit(b, ident, d) ==
    LET cfgs == MatchingOutboxes(d, "gmail", ident) IN
    IF cfgs = {} THEN [b |-> b, exc |-> "ValueError"]
    ELSE [b |-> [b EXCEPT !.configuration_id = FirstOutbox(cfgs).id,
                          !.from_email = ident, !.host = "smtp.gmail.com"],
          exc |-> "none"]

\* Outcomes of the collaborators of one open: the SMTP session, the
\* UserSocialAuth lookup, the first AUTH XOAUTH2, the token refresh and the
\* retried AUTH.
OpenEnv(smtp, social, auth1, refresh, auth2) ==
    [smtp |-> smtp, social |-> social, auth1 |-> auth1, refresh |-> refresh,
     auth2 |-> auth2]

\* One environment per path through open (a collaborator that is not
\* reached is listed as "ok").
OpenEnvs ==
    { OpenEnv("raise", "found", "ok", "ok", "ok"),
      OpenEnv("ok", "missing", "ok", "ok", "ok"),
      OpenEnv("ok", "found", "ok", "ok", "ok"),
      OpenEnv("ok", "found", "raise", "raise", "ok"),
      OpenEnv("ok", "found", "raise", "ok", "ok"),
      OpenEnv("ok", "found", "raise", "ok", "raise") }

NoOpen == [happened |-> FALSE, ret |-> None, refreshes |-> 0, auths |-> 0,
           env |-> OpenEnv("ok", "found", "ok", "ok", "ok")]

Session(uid, st) == [held |-> TRUE, ident |-> uid, state |-> st]

GmailOpenNoRetry(b, auth_uid, e) ==
    LET uid == IF auth_uid # None THEN auth_uid ELSE b.from_email
        out(conn, ret, r, a, q) ==
            [b |-> [b EXCEPT !.conn = conn], ret |-> ret, refreshes |-> r,
             auths |-> a, acq |-> q]
    IN
    IF e.smtp = "raise" THEN out(b.conn, None, 0, 0, 0)
    ELSE IF e.social = "missing" THEN out(Session(uid, "unauth"), None, 0, 0, 1)
    ELSE IF e.auth1 = "ok" THEN out(Session(uid, "auth"), "True", 0, 1, 1)
    ELSE out(Session(uid, "unauth"), None, 0, 1, 1)

\* an open that answers a failed retry with another refresh and a third
\* authenticate, which succeeds
GmailOpenRefreshAgain(b, auth_uid, e) ==
    LET first == GmailOpenNoRetry(b, auth_uid, e) IN
    IF e.smtp = "raise" \/ e.social = "missing" \/ e.auth1 = "ok" THEN first
    ELSE [b |-> [b EXCEPT !.conn = Session(IF auth_uid # None THEN auth_uid
                                            ELSE b.from_email, "auth")],
          ret |-> "True", refreshes |-> 2, auths |-> 3, acq |-> 1]

\* open(auth_uid): ret is "True" or None; refreshes / auths count the calls of
\* refresh_authorization and _connect_for_social_auth. Without a host
\* smtplib.SMTP(None, None) builds a session that is not connected, on which
\* every command raises; no UserSocialAuth has uid None.
GmailOpen(b, auth_uid, e) ==
    LET uid == IF auth_uid # None THEN auth_uid ELSE b.from_email
        up == b.host # None
        social == IF uid = None THEN "missing" ELSE e.social
        auth1 == IF up THEN e.auth1 ELSE "raise"
        auth2 == IF up THEN e.auth2 ELSE "raise"
        unauth == Session(uid, IF up THEN "unauth" ELSE "unconnected")
        out(conn, ret, r, a, q) ==
            [b |-> [b EXCEPT !.conn = conn], ret |-> ret, refreshes |-> r,
             auths |-> a, acq |-> q]
    IN
    IF up /\ e.smtp = "raise" THEN out(b.conn, None, 0, 0, 0)
    ELSE IF social = "missing" THEN out(unauth, None, 0, 0, 1)
    ELSE IF auth1 = "ok" THEN out(Session(uid, "auth"), "True", 0, 1, 1)
    ELSE IF e.refresh = "raise" THEN out(unauth, None, 1, 1, 1)
    ELSE IF auth2 = "ok" THEN out(Session(uid, "auth"), "True", 1, 2, 1)
    ELSE out(unauth, None, 1, 2, 1)

\* a close that re-raises the SMTPException whatever fail_silently says
GmailCloseRaisesAlways(b, quit) ==
    IF ~b.conn.held THEN [b |-> b, exc |-> "none", rel |-> 0]
    ELSE [b |-> [b EXCEPT !.conn = NoConn, !.from_email = None,
                          !.configuration_id = 0],
          exc |-> IF quit = "smtpexc" THEN "SMTPException" ELSE "none",
          rel |-> 1]

\* close(); quit is the outcome of connection.quit(): "ok", "disconnected"
\* (ssl.SSLError / SMTPServerDisconnected) or "smtpexc" (another SMTPException).
GmailClose(b, quit) ==
    IF ~b.conn.held THEN [b |-> b, exc |-> "none", rel |-> 0]
    ELSE
      LET b1 == [b EXCEPT !.conn = NoConn, !.from_email = None,
                          !.configuration_id = 0] IN
      IF quit = "smtpexc" /\ ~b.fail_silently
      THEN [b |-> b1, exc |-> "SMTPException", rel |-> 1]
      ELSE [b |-> b1, exc |-> "none", rel |-> 1]

----------------------------------------------------------------------------
(* send_messages *)

Message(sender, i) == [from |-> sender, id |-> i]

\* an insertion that puts m before the messages of its own sender
RECURSIVE InsertBeforeEqual(_, _)
InsertBeforeEqual(s, m) ==
    IF s = <<>> THEN <<m>>
    ELSE IF Rank(Head(s).from) < Rank(m.from)
    THEN <<Head(s)>> \o InsertBeforeEqual(Tail(s), m)
    ELSE <<m>> \o s

\* sorted(email_messages, key=lambda m: m.from_email), one insertion at a
\* time: m, the latest of the batch so far, goes behind every message whose
\* from_email is not greater
RECURSIVE InsertBySender(_, _)
InsertBySender(s, m) ==
    IF s = <<>> THEN <<m>>
    ELSE IF Rank(Head(s).from) <= Rank(m.from)
    THEN <<Head(s)>> \o InsertBySender(Tail(s), m)
    ELSE <<m>> \o s

RECURSIVE SortBySender(_)
SortBySender(batch) ==
    IF batch = <<>> THEN <<>>
    ELSE InsertBySender(SortBySender(SubSeq(batch, 1, Len(batch) - 1)),
                        batch[Len(batch)])

Batches ==
    UNION { { [i \in 1..n |-> Message(f[i], i)] : f \in [1..n -> Senders] }
            : n \in 0..MaxBatch }

NeedsNewConnectionOnlyIfNone(b, oauth) == ~b.conn.held

NeedsNewConnection(b, oauth) ==
    IF b.kind = "o365"
    THEN ~b.conn.held \/ b.from_email # oauth
    ELSE ~b.conn.held \/ b.from_email # oauth \/ b.configuration_id = 0

CountIncrementAlways(sendResult) == 1

CountIncrement(sendResult) == IF sendResult THEN 1 ELSE 0

NoIter ==
    [msg |-> Message(None, 0), oauth |-> None, reopened |-> FALSE,
     called |-> FALSE, skipped |-> FALSE, exc |-> "none", adapterOk |-> FALSE,
     inc |-> 0, handed |-> 0, released |-> 0, acquired |-> 0,
     atSend |-> NewBackend("none", FALSE), open |-> NoOpen,
     close |-> [quitting |-> FALSE, quit |-> "ok", exc |-> "none",
                held |-> FALSE]]

\* One iteration of O365Backend.send_messages' loop.
O365Iter(b, d, m, msg, construct, api) ==
    LET oauth == ResolveIdentity(m, msg.from)
        need == NeedsNewConnection(b, oauth)
        cl == IF need THEN O365Close(b) ELSE [b |-> b, exc |-> "none", rel |-> 0]
        op == IF need
              THEN O365Open([cl.b EXCEPT !.from_email = oauth], d, construct)
              ELSE [b |-> b, exc |-> "none", rel |-> 0, acq |-> 0]
        opened == op.exc = "none"
        snd == IF opened THEN O365ConnSend(op.b.conn, b.fail_silently, api)
               ELSE [ret |-> 0, exc |-> op.exc, handed |-> 0]
        ok == opened /\ snd.exc = "none" /\ snd.ret > 0
        inc == IF snd.exc = "none" THEN CountIncrement(snd.ret > 0) ELSE 0
    IN
    [b |-> op.b, inc |-> inc, exc |-> snd.exc, adapterOk |-> ok,
     handed |-> snd.handed, rel |-> cl.rel + op.rel, acq |-> op.acq,
     info |-> [NoIter EXCEPT !.msg = msg, !.oauth = oauth, !.reopened = need,
                             !.called = opened, !.exc = snd.exc,
                             !.adapterOk = ok, !.inc = inc,
                             !.handed = snd.handed,
                             !.released = cl.rel + op.rel, !.acquired = op.acq,
                             !.atSend = op.b]]

\* One iteration of GmailOAuth2Backend.send_messages' loop; send is the
\* outcome of _send: "ok" (True), "false" (False) or "raise".
GmailIter(b, d, m, msg, quit, e, send) ==
    LET oauth == ResolveIdentity(m, msg.from)
        need == NeedsNewConnection(b, oauth)
        cl == IF need THEN GmailClose(b, quit) ELSE [b |-> b, exc |-> "none", rel |-> 0]
        ini == IF need /\ cl.exc = "none" THEN GmailInit(cl.b, oauth, d)
               ELSE [b |-> cl.b, exc |-> cl.exc]
        doOpen == need /\ ini.exc = "none"
        op == IF doOpen THEN GmailOpen(ini.b, oauth, e)
              ELSE [b |-> ini.b, ret |-> None, refreshes |-> 0, auths |-> 0, acq |-> 0]
        skipped == doOpen /\ (~op.b.conn.held \/ op.ret = None)
        called == ini.exc = "none" /\ ~skipped
        exc == IF ini.exc # "none" THEN ini.exc
               ELSE IF called /\ send = "raise" THEN "SMTPException"
               ELSE "none"
        ok == called /\ send = "ok"
        inc == IF called /\ exc = "none" THEN CountIncrement(send = "ok") ELSE 0
        given == IF called THEN 1 ELSE 0
    IN
    [b |-> op.b, inc |-> inc, exc |-> exc, adapterOk |-> ok,
     handed |-> given, rel |-> cl.rel, acq |-> op.acq,
     info |-> [NoIter EXCEPT !.msg = msg, !.oauth = oauth, !.reopened = need,
                             !.called = called, !.skipped = skipped,
                             !.exc = exc, !.adapterOk = ok, !.inc = inc,
                             !.handed = given,
                             !.released = cl.rel, !.acquired = op.acq,
                             !.atSend = op.b,
                             !.close = [quitting |-> need /\ b.conn.held,
                                        quit |-> IF need /\ b.conn.held
                                                 THEN quit ELSE "ok",
                                        exc |-> cl.exc,
                                        held |-> cl.b.conn.held],
                             !.open = [happened |-> doOpen, ret |-> op.ret,
                                       refreshes |-> op.refreshes,
                                       auths |-> op.auths,
                                       env |-> IF doOpen THEN e ELSE NoOpen.env]]]

\* What connection.quit() can do; without a connection it is not called.
QuitOutcomes(b) ==
    IF ~b.conn.held THEN {"ok"}
    ELSE IF b.conn.state = "unconnected" THEN {"disconnected"}
    ELSE {"ok", "disconnected", "smtpexc"}

----------------------------------------------------------------------------
(* django.core.mail.backends.smtp.EmailBackend, the base class of the
   backends and the class behind the "smtp" alias *)

\* open(): host and credentials come from the settings; outcome "ok" or
\* "raise" (OSError).
SmtpOpen(b, outcome) ==
    IF b.conn.held THEN [b |-> b, exc |-> "none", acq |-> 0]
    ELSE IF outcome = "ok"
    THEN [b |-> [b EXCEPT !.conn = Session(None, "auth")], exc |-> "none", acq |-> 1]
    ELSE IF b.fail_silently THEN [b |-> b, exc |-> "none", acq |-> 0]
    ELSE [b |-> b, exc |-> "OSError", acq |-> 0]

SmtpClose(b, quit) ==
    IF ~b.conn.held THEN [b |-> b, exc |-> "none", rel |-> 0]
    ELSE
      LET b1 == [b EXCEPT !.conn = NoConn] IN
      IF quit = "smtpexc" /\ ~b.fail_silently
      THEN [b |-> b1, exc |-> "SMTPException", rel |-> 1]
      ELSE [b |-> b1, exc |-> "none", rel |-> 1]

----------------------------------------------------------------------------
(* ConnectionHandler *)

Threads == {"t1", "t2"}

\* An alias is a string; it is modelled as the sequence of its pieces, the
\* reserved separators being pieces of their own.
Aliases ==
    { <<"smtp", ";;;", "a">>, <<"smtp">>,
      <<"gmail", ";;;", "a">>,
      <<"o365", "???", "a">>, <<"o365", ";;;", "a">>,
      <<"nope">> }

\* settings.get_backend: alias -> backend class
Registry ==
    [x \in {<<"smtp">>, <<"gmail">>, <<"o365">>} |-> x[1]]

Contains(alias, sep) == \E i \in 1..Len(alias) : alias[i] = sep

\* str.split(sep): the pieces between the occurrences of sep
RECURSIVE Split(_, _)
Split(alias, sep) ==
    IF ~Contains(alias, sep) THEN <<alias>>
    ELSE LET i == CHOOSE k \in 1..Len(alias) :
                    alias[k] = sep /\ \A j \in 1..(k - 1) : alias[j] # sep
         IN <<SubSeq(alias, 1, i - 1)>> \o Split(SubSeq(alias, i + 1, Len(alias)), sep)

\* the string a piece sequence spells, for the pieces of an identity
Join(piece) ==
    IF piece = <<>> THEN "" ELSE IF Len(piece) = 1 THEN piece[1] ELSE "<other>"

ParseAliasSwapped(alias) ==
    LET parsed(real, fe, fo) ==
            [exc |-> "none", real |-> real, from_email |-> fe, from_oauth_user |-> fo]
        bad == [exc |-> "ValueError", real |-> alias, from_email |-> None,
                from_oauth_user |-> None]
    IN
    IF Contains(alias, "???")
    THEN LET parts == Split(alias, "???") IN
         IF Len(parts) = 2 THEN parsed(parts[1], None, Join(parts[2])) ELSE bad
    ELSE IF Contains(alias, ";;;")
    THEN LET parts == Split(alias, ";;;") IN
         IF Len(parts) = 2 THEN parsed(parts[1], Join(parts[2]), None) ELSE bad
    ELSE parsed(alias, None, None)

\* lines 29-35: real_alias, from_email, from_oauth_user; unpacking a split
\* that has not exactly two parts raises ValueError.
ParseAlias(alias) ==
    LET parsed(real, fe, fo) ==
            [exc |-> "none", real |-> real, from_email |-> fe, from_oauth_user |-> fo]
        bad == [exc |-> "ValueError", real |-> alias, from_email |-> None,
                from_oauth_user |-> None]
    IN
    IF Contains(alias, "???")
    THEN LET parts == Split(alias, "???") IN
         IF Len(parts) = 2 THEN parsed(parts[1], Join(parts[2]), None) ELSE bad
    ELSE IF Contains(alias, ";;;")
    THEN LET parts == Split(alias, ";;;") IN
         IF Len(parts) = 2 THEN parsed(parts[1], None, Join(parts[2])) ELSE bad
    ELSE parsed(alias, None, None)

\* What the collaborators of one adapter open do: the outcomes of the O365
\* account construction with the others nominal, and the outcomes of the
\* SMTP connect and of the social-account query with the construction nominal.
AdapterEnvs ==
    { [construct |-> c, smtp |-> "ok", social |-> "found"] :
        c \in {"auth", "unauth", "none", "raise"} }
    \cup { [construct |-> "auth", smtp |-> "raise", social |-> "found"],
           [construct |-> "auth", smtp |-> "ok", social |-> "missing"] }

\* backend_class.open() for the class of b
OpenAdapter(b, d, env) ==
    CASE b.kind = "o365" ->
           LET r == O365Open(b, d, env.construct) IN [b |-> r.b, exc |-> r.exc]
      [] b.kind = "gmail" ->
           LET r == GmailOpen(b, None, OpenEnv(env.smtp, env.social, "ok", "ok", "ok"))
           IN [b |-> r.b, exc |-> "none"]
      [] OTHER ->
           LET r == SmtpOpen(b, env.smtp) IN [b |-> r.b, exc |-> r.exc]

\* close() for the class of b
CloseAdapter(b, quit) ==
    CASE b.kind = "o365" -> O365Close(b)
      [] b.kind = "gmail" -> GmailClose(b, quit)
      [] OTHER -> SmtpClose(b, quit)

\* threading.local: the storage a thread's lookups read and write
SlotShared(t) == "t1"

Slot(t) == t

CachedNever(cs, t, alias) == {}

\* the entries of thread t's storage under the key alias
Cached(cs, t, alias) ==
    { i \in 1..Len(cs[Slot(t)]) : cs[Slot(t)][i].alias = alias }

\* the identity of a cached instance: who constructed it, for which alias,
\* and which construction of that thread for that alias it was
NoInst == <<>>

Ident(e) == <<e.creator, e.alias, e.gen>>

Total(cs) == Len(cs["t1"]) + Len(cs["t2"])

LookupStoringBeforeOpen(cs, d, t, alias, env) ==
    LET hit == Cached(cs, t, alias)
        p == ParseAlias(alias)
        failed(exc) == [conns |-> cs, k |-> 0, exc |-> exc, constructed |-> FALSE]
    IN
    IF hit # {}
    THEN [conns |-> cs, k |-> CHOOSE i \in hit : \A j \in hit : i >= j,
          exc |-> "none", constructed |-> FALSE]
    ELSE IF p.exc # "none" THEN failed(p.exc)
    ELSE IF p.real \notin DOMAIN Registry THEN failed("KeyError")
    ELSE
      LET b0 == [NewBackend(Registry[p.real], FALSE) EXCEPT
                    !.from_email = p.from_email,
                    !.from_oauth_user = p.from_oauth_user]
          op == OpenAdapter(b0, d, env)
          rec == [alias |-> alias, b |-> op.b, creator |-> t, gen |-> 1,
                  closes |-> 0, closers |-> {}]
          stored == [cs EXCEPT ![Slot(t)] = Append(@, rec)]
      IN
      IF op.exc # "none"
      THEN [conns |-> stored, k |-> 0, exc |-> op.exc, constructed |-> FALSE]
      ELSE [conns |-> stored, k |-> Len(cs[Slot(t)]) + 1, exc |-> "none",
            constructed |-> TRUE]

\* __getitem__(alias) by thread t; k is the entry returned, 0 when the
\* lookup raised exc.
Lookup(cs, d, t, alias, env) ==
    LET hit == Cached(cs, t, alias)
        p == ParseAlias(alias)
        failed(exc) == [conns |-> cs, k |-> 0, exc |-> exc, constructed |-> FALSE]
    IN
    IF hit # {}
    THEN [conns |-> cs, k |-> CHOOSE i \in hit : \A j \in hit : i >= j,
          exc |-> "none", constructed |-> FALSE]
    ELSE IF p.exc # "none" THEN failed(p.exc)
    ELSE IF p.real \notin DOMAIN Registry THEN failed("KeyError")
    ELSE
      LET b0 == [NewBackend(Registry[p.real], FALSE) EXCEPT
                    !.from_email = p.from_email,
                    !.from_oauth_user = p.from_oauth_user]
          op == OpenAdapter(b0, d, env)
          gen == 1 + Cardinality({ i \in 1..Len(cs[Slot(t)]) :
                                     /\ cs[Slot(t)][i].alias = alias
                                     /\ cs[Slot(t)][i].creator = t })
          rec == [alias |-> alias, b |-> op.b, creator |-> t, gen |-> gen,
                  closes |-> 0, closers |-> {}]
      IN
      IF op.exc # "none" THEN failed(op.exc)
      ELSE [conns |-> [cs EXCEPT ![Slot(t)] = Append(@, rec)],
            k |-> Len(cs[Slot(t)]) + 1, exc |-> "none", constructed |-> TRUE]

\* close() of the adapter in entry k of thread t's storage, called by t
CloseInst(cs, t, k, quit) ==
    LET r == CloseAdapter(cs[Slot(t)][k].b, quit) IN
    [conns |-> [cs EXCEPT ![Slot(t)][k].b = r.b,
                          ![Slot(t)][k].closes = @ + 1,
                          ![Slot(t)][k].closers = @ \cup {t}],
     exc |-> r.exc]

\* ConnectionHandler.close() by thread t from entry k on: close() of every
\* cached adapter in turn; an exception ends the loop.
RECURSIVE CloseFrom(_, _, _, _)
CloseFrom(cs, t, quits, k) ==
    IF k > Len(cs[Slot(t)]) THEN [conns |-> cs, exc |-> "none"]
    ELSE LET r == CloseInst(cs, t, k, quits[k]) IN
         IF r.exc # "none" THEN r
         ELSE CloseFrom(r.conns, t, quits, k + 1)

NoLookup == [thread |-> None, alias |-> <<>>, inst |-> NoInst, constructed |-> FALSE]

NoCheck ==
    [kind |-> "none", thread |-> None, family |-> None, user |-> None,
     obtained |-> FALSE, inst |-> NoInst, acquire |-> "none", probe |-> "skipped",
     cleanup |-> "none", heldAfter |-> FALSE, raised |-> "none",
     success |-> None, prefix |-> None, text |-> None,
     given |-> [env |-> [construct |-> "auth", smtp |-> "ok", social |-> "found"],
                noop |-> "ok", quit |-> "ok"]]

CacheInit ==
    /\ conns = [t \in Threads |-> <<>>]
    /\ hist = <<NoLookup, NoLookup>>
    /\ hc = NoCheck

\* the environments that make a difference to the lookup of alias by t
EnvsFor(cs, t, alias) ==
    IF Cached(cs, t, alias) # {} \/ ParseAlias(alias).exc # "none"
       \/ ParseAlias(alias).real \notin DOMAIN Registry
    THEN { [construct |-> "auth", smtp |-> "ok", social |-> "found"] }
    ELSE IF Registry[ParseAlias(alias).real] = "o365"
    THEN { e \in AdapterEnvs : e.smtp = "ok" /\ e.social = "found" }
    ELSE IF Registry[ParseAlias(alias).real] = "gmail"
    THEN { e \in AdapterEnvs : e.construct = "auth" }
    ELSE { e \in AdapterEnvs : e.construct = "auth" /\ e.social = "found" }

\* a thread looks an alias up
LookupAlias(t, alias) ==
    /\ Cached(conns, t, alias) # {} \/ Total(conns) < MaxInst
    /\ \E env \in EnvsFor(conns, t, alias) :
         LET r == Lookup(conns, db, t, alias, env) IN
         /\ conns' = r.conns
         /\ hist' = <<hist[2],
                      [thread |-> t, alias |-> alias,
                       inst |-> IF r.k = 0 THEN NoInst
                                ELSE Ident(r.conns[Slot(t)][r.k]),
                       constructed |-> r.constructed]>>
    /\ UNCHANGED <<hc, dvars, pvars, rvars, lvars, gvars>>

\* a thread calls ConnectionHandler.close()
CloseAll(t) ==
    /\ conns[Slot(t)] # <<>>
    /\ \A k \in 1..Len(conns[Slot(t)]) : conns[Slot(t)][k].closes < MaxCloses
    /\ \E quits \in [1..Len(conns[Slot(t)]) -> {"ok", "disconnected", "smtpexc"}] :
         /\ \A k \in 1..Len(conns[Slot(t)]) :
              quits[k] \in QuitOutcomes(conns[Slot(t)][k].b)
         /\ conns' = CloseFrom(conns, t, quits, 1).conns
    /\ hist' = <<NoLookup, NoLookup>>
    /\ UNCHANGED <<hc, dvars, pvars, rvars, lvars, gvars>>

Idle ==
    /\ db = OutboxUniverse
    /\ mapping = [x \in Addr |-> None]
    /\ backend = NewBackend("o365", FALSE)
    /\ pc = "idle"
    /\ queue = <<>>
    /\ sent_count = 0
    /\ result = None
    /\ raisedExc = "none"
    /\ okSends = 0
    /\ handed = 0
    /\ live = 0
    /\ it = NoIter

\* last_polling of a Mailbox that was never polled
Unset == 0

NoPoll ==
    [kind |-> "none", connect |-> "none", started |-> 0, ended |-> 0,
     before |-> Unset, after |-> Unset, available |-> {}, fetched |-> {},
     exc |-> "none", auths |-> 0]

\* nothing polled: the poller's variables at rest
PollIdle ==
    /\ clock = 1
    /\ mailbox = [uri |-> TRUE, type |-> "office365", from_email |-> TRUE,
                  last_polling |-> Unset]
    /\ inbox = {}
    /\ poll = NoPoll
    /\ delivered = {}

ResolveClasses == {"custom", "o365", "gmail"}

NoResolution ==
    [done |-> FALSE, user |-> None, exc |-> "none", configuration_id |-> 0,
     held |-> FALSE]

\* nothing resolved
ResolveIdle == res = [c \in ResolveClasses |-> NoResolution]

NoSend == [pc |-> "idle", ident |-> None, found |-> "none"]

\* no thread is using the shared backend
LockIdle == lock = None /\ sending = NoSend /\ closing = "idle"

NoApi ==
    [pc |-> "idle", token |-> "present", refresh_token |-> "present",
     response |-> "none", requests |-> 0, refreshes |-> 0, rounds |-> 0,
     via |-> "none"]

\* no transport is connecting
GoogleIdle == goog = NoApi

Rest == ResolveIdle /\ LockIdle /\ GoogleIdle

CacheStart == Idle /\ CacheInit /\ PollIdle /\ Rest

CacheNext ==
    \/ \E t \in Threads, alias \in Aliases : LookupAlias(t, alias)
    \/ \E t \in Threads : CloseAll(t)

CacheSpec == CacheStart /\ [][CacheNext]_vars

----------------------------------------------------------------------------
(* test_connection *)

Failed(text) ==
    [success |-> "False", prefix |-> "Connection failed: ", text |-> text]

Succeeded == [success |-> "True", prefix |-> "Successfully connected to ", text |-> None]

NotAuthenticated ==
    [success |-> "False", prefix |-> "Office365 connection not authenticated",
     text |-> None]

\* lines 78-83: the alias Outbox.test_connection looks up
OutboxAlias(o) == <<o.family, ";;;", o.user>>

\* the adapter a lookup result hands to test_connection
Obtained(got, t) ==
    IF got.k = 0 THEN NewBackend("smtp", FALSE) ELSE got.conns[Slot(t)][got.k].b

\* what noop() can do on adapter b
NoopOutcomes(b) == IF b.conn.held THEN {"ok", "raise"} ELSE {"ok"}

\* lines 86-104: the lookup result got and the probe of the adapter; noop is
\* the outcome of connection.connection.noop(). Only the SMTP-based classes
\* ever have a truthy .connection: O365Backend keeps its session in .conn.
OutboxProbe(got, t, noop) ==
    IF got.k = 0 THEN [probe |-> "skipped", ret |-> Failed(got.exc)]
    ELSE IF Obtained(got, t).kind # "o365" /\ Obtained(got, t).conn.held
    THEN IF Obtained(got, t).conn.state = "unconnected" \/ noop = "raise"
         THEN [probe |-> "SMTPServerDisconnected", ret |-> Failed("SMTPServerDisconnected")]
         ELSE IF /\ Obtained(got, t).kind = "o365"
                 /\ Obtained(got, t).conn.held
                 /\ Obtained(got, t).conn.state # "auth"
         THEN [probe |-> "unauth", ret |-> NotAuthenticated]
         ELSE [probe |-> "ok", ret |-> Succeeded]
    ELSE [probe |-> "skipped", ret |-> Succeeded]

\* lines 105-108: the finally block runs on every path
CleanupOnlyOnSuccess(ret) == ret.success = "True"

CleanupRuns(ret) == TRUE

\* lines 105-108: close() of the adapter when one was obtained
Cleanup(got, t, pr, quit) ==
    IF got.k # 0 /\ CleanupRuns(pr.ret)
    THEN [ran |-> TRUE, conns |-> CloseInst(got.conns, t, got.k, quit).conns,
          exc |-> CloseInst(got.conns, t, got.k, quit).exc]
    ELSE [ran |-> FALSE, conns |-> got.conns, exc |-> "none"]

\* what the call did and gave back: the pair returned in the try block, or
\* the exception of the finally block that replaces it; given is what the
\* collaborators did during the call
Outcome(t, o, got, pr, cl, given) ==
    [kind |-> "outbox", thread |-> t, family |-> o.family, user |-> o.user,
     obtained |-> got.k # 0,
     inst |-> IF got.k = 0 THEN NoInst ELSE Ident(got.conns[Slot(t)][got.k]),
     acquire |-> got.exc,
     probe |-> pr.probe,
     cleanup |-> IF cl.ran THEN (IF cl.exc = "none" THEN "ok" ELSE cl.exc)
                 ELSE IF got.k = 0 THEN "none" ELSE "skipped",
     heldAfter |-> got.k # 0 /\ cl.conns[Slot(t)][got.k].b.conn.held,
     raised |-> cl.exc,
     success |-> IF cl.exc # "none" THEN None ELSE pr.ret.success,
     prefix |-> IF cl.exc # "none" THEN None ELSE pr.ret.prefix,
     text |-> IF cl.exc # "none" THEN None ELSE pr.ret.text,
     given |-> given]

\* the Outboxes whose test_connection is exercised
CheckedOutboxes == { o \in OutboxUniverse : o.user \in {"a", "b"} /\ o.id # 2 }

\* Outbox.test_connection() of Outbox o by thread t
OutboxTestConnection(t, o) ==
    /\ Cached(conns, t, OutboxAlias(o)) # {} \/ Total(conns) < MaxInst
    /\ \A k \in Cached(conns, t, OutboxAlias(o)) :
         conns[Slot(t)][k].closes < MaxCloses
    /\ \E env \in EnvsFor(conns, t, OutboxAlias(o)) :
       \E got \in {Lookup(conns, db, t, OutboxAlias(o), env)} :
       \E noop \in NoopOutcomes(Obtained(got, t)),
          quit \in QuitOutcomes(Obtained(got, t)) :
       \E pr \in {OutboxProbe(got, t, noop)} :
       \E cl \in {Cleanup(got, t, pr, quit)} :
         /\ conns' = cl.conns
         /\ hc' = Outcome(t, o, got, pr, cl,
                          [env |-> env, noop |-> noop, quit |-> quit])
    /\ UNCHANGED <<hist, dvars, pvars, rvars, lvars, gvars>>

\* Mailbox records: whether a uri is set, and the transport type its scheme names
Mailboxes ==
    [uri : BOOLEAN,
     type : {"imap", "gmail", "pop3", "office365", "maildir", "unknown"}]

\* Mailbox.test_connection(); getc is the outcome of the transport's
\* construction and connect ("conn" / "raise"), probe the outcome of noop()
\* or of the is_authenticated check ("ok" / "raise" / "unauth").
MailboxTest(m, getc, probe) ==
    LET base == [NoCheck EXCEPT !.kind = "mailbox", !.family = m.type]
        ret(b, r) == [b EXCEPT !.success = r.success, !.prefix = r.prefix,
                               !.text = r.text]
        \* no path of test_connection closes the transport, and the network
        \* transports have no close of their own
        got == [base EXCEPT !.obtained = TRUE,
                            !.heldAfter = m.type \in {"imap", "gmail", "pop3",
                                                      "office365"}]
    IN
    IF ~m.uri
    THEN ret(base, [success |-> "False",
                    prefix |-> "Could not establish connection - invalid configuration",
                    text |-> None])
    ELSE IF m.type = "unknown"
    THEN ret([base EXCEPT !.acquire = "UnboundLocalError"], Failed("UnboundLocalError"))
    ELSE IF getc = "raise"
    THEN ret([base EXCEPT !.acquire = "ConnectError"], Failed("ConnectError"))
    ELSE IF m.type \in {"imap", "gmail", "pop3"}
    THEN IF probe = "raise"
         THEN ret([got EXCEPT !.probe = "ProbeError"], Failed("ProbeError"))
         ELSE ret([got EXCEPT !.probe = "ok"], Succeeded)
    ELSE IF m.type = "office365"
    THEN IF probe = "raise"
         THEN ret([got EXCEPT !.probe = "ProbeError"], Failed("ProbeError"))
         ELSE IF probe = "unauth"
         THEN ret([got EXCEPT !.probe = "unauth"], NotAuthenticated)
         ELSE ret([got EXCEPT !.probe = "ok"], Succeeded)
    ELSE ret([got EXCEPT !.probe = "skipped"], Succeeded)

MailboxTestConnection(m) ==
    /\ \E getc \in {"conn", "raise"}, probe \in {"ok", "raise", "unauth"} :
         hc' = MailboxTest(m, getc, probe)
    /\ UNCHANGED <<conns, hist, dvars, pvars, rvars, lvars, gvars>>

HealthNext ==
    \/ \E t \in Threads, o \in CheckedOutboxes : OutboxTestConnection(t, o)
    \/ \E m \in Mailboxes : MailboxTestConnection(m)

HealthSpec == CacheStart /\ [][HealthNext]_vars

----------------------------------------------------------------------------
(* Mailbox.get_new_mail *)

\* the Mailbox records polled: whether a uri is set, the transport type and
\* whether from_email is set
PolledMailboxes ==
    [uri : BOOLEAN, type : {"office365", "imap"}, from_email : BOOLEAN]

\* get_connection(): connect is what building and connecting the transport
\* does. "swallowed": O365Connection(...) raised ValueError("from_email
\* required."), O365Transport.connect caught it and left the transport
\* without a connection;
\* "auth" / "unauth": an O365 connection whose account is / is not
\* authenticated; "ok": another transport, logged in; "raise": the exception
\* leaves get_connection.
ConnectOutcomes(m) ==
    IF ~m.uri THEN {"nouri"}
    ELSE IF m.type = "office365"
    THEN IF m.from_email THEN {"auth", "unauth", "raise"} ELSE {"swallowed"}
    ELSE {"ok", "raise"}

\* connection.get_message(condition): the receipt times of the messages
\* yielded, or the exception the generator raises. The O365 query keeps the
\* messages received after last_polled, every message when it is unset; the
\* other transports list the whole folder.
\* auths counts the authentications (interactive or token refresh) that the
\* call starts.
GetMessageAuthenticating(m, connect, box, fetch) ==
    IF connect = "swallowed" THEN [exc |-> "none", got |-> {}, auths |-> 0]
    ELSE IF fetch = "raise" THEN [exc |-> "FetchError", got |-> {}, auths |-> 0]
    ELSE IF m.type = "office365"
    THEN [exc |-> "none",
          got |-> { r \in box : m.last_polling = Unset \/ r > m.last_polling },
          auths |-> IF connect = "unauth" THEN 1 ELSE 0]
    ELSE [exc |-> "none", got |-> box, auths |-> 0]

GetMessage(m, connect, box, fetch) ==
    IF connect = "swallowed" THEN [exc |-> "none", got |-> {}, auths |-> 0]
    ELSE IF connect = "unauth"
    THEN [exc |-> "O365NotAuthenticated", got |-> {}, auths |-> 0]
    ELSE IF fetch = "raise" THEN [exc |-> "FetchError", got |-> {}, auths |-> 0]
    ELSE IF m.type = "office365"
    THEN [exc |-> "none",
          got |-> { r \in box : m.last_polling = Unset \/ r > m.last_polling },
          auths |-> 0]
    ELSE [exc |-> "none", got |-> box, auths |-> 0]

\* line 590: self.last_polling = now(), evaluated when the fetch is over
Checkpoint(started, ended) == ended

\* get_new_mail() at time started, taking took units of time
GetNewMailAt(m, box, started, connect, fetch, took) ==
    IF connect = "nouri"
    THEN [m |-> m,
          poll |-> [NoPoll EXCEPT !.kind = "returned", !.connect = connect,
                       !.started = started, !.ended = started,
                       !.before = m.last_polling, !.after = m.last_polling,
                       !.available = box]]
    ELSE IF connect = "raise" \/ GetMessage(m, connect, box, fetch).exc # "none"
    THEN [m |-> m,
          poll |-> [NoPoll EXCEPT !.kind = "raised", !.connect = connect,
                       !.started = started, !.ended = started + took,
                       !.before = m.last_polling, !.after = m.last_polling,
                       !.available = box,
                       !.exc = IF connect = "raise" THEN "ConnectError"
                               ELSE GetMessage(m, connect, box, fetch).exc,
                       !.auths = IF connect = "raise" THEN 0
                                 ELSE GetMessage(m, connect, box, fetch).auths]]
    ELSE [m |-> [m EXCEPT !.last_polling = Checkpoint(started, started + took)],
          poll |-> [kind |-> "returned", connect |-> connect,
                    started |-> started, ended |-> started + took,
                    before |-> m.last_polling,
                    after |-> Checkpoint(started, started + took),
                    available |-> box,
                    fetched |-> GetMessage(m, connect, box, fetch).got,
                    exc |-> "none",
                    auths |-> GetMessage(m, connect, box, fetch).auths]]

PollInit ==
    /\ clock = 1
    /\ mailbox \in { [uri |-> pm.uri, type |-> pm.type, from_email |-> pm.from_email,
                       last_polling |-> Unset] : pm \in PolledMailboxes }
    /\ inbox = {}
    /\ poll = NoPoll
    /\ delivered = {}

\* a message reaches the mail server
Arrive ==
    /\ clock \notin inbox
    /\ inbox' = inbox \cup {clock}
    /\ UNCHANGED <<clock, mailbox, poll, delivered, dvars, cvars, rvars, lvars, gvars>>

\* time passes
Tick ==
    /\ clock < MaxClock
    /\ clock' = clock + 1
    /\ UNCHANGED <<mailbox, inbox, poll, delivered, dvars, cvars, rvars, lvars, gvars>>

\* late: the messages the server receives while the poll runs, after the
\* query has been answered
GetNewMail ==
    /\ \E connect \in ConnectOutcomes(mailbox), fetch \in {"ok", "raise"},
          took \in {0, 1} :
         /\ clock + took <= MaxClock
         /\ connect \in {"nouri", "swallowed", "unauth", "raise"} => fetch = "ok"
         /\ \E r \in { GetNewMailAt(mailbox, inbox, clock, connect, fetch, took) } :
              /\ mailbox' = r.m
              /\ poll' = r.poll
              /\ delivered' = delivered \cup r.poll.fetched
         /\ \E late \in SUBSET ({clock + took} \ inbox) : inbox' = inbox \cup late
         /\ clock' = clock + took
    /\ UNCHANGED <<dvars, cvars, rvars, lvars, gvars>>

PollNext == Arrive \/ Tick \/ GetNewMail

PollStart == Idle /\ CacheInit /\ PollInit /\ Rest

PollSpec == PollStart /\ [][PollNext]_vars

----------------------------------------------------------------------------
(* Configuration resolution *)

\* the Outbox tables resolved against: rows 1..n, each with an
\* email_host_user, the family named in its email_host and its active flag
OutboxRows ==
    [user : Senders, family : {"o365", "gmail"}, active : BOOLEAN]

OutboxTables ==
    UNION { { { [id |-> i, user |-> f[i].user, family |-> f[i].family,
                 active |-> f[i].active, schemeOk |-> TRUE] : i \in 1..n } :
              f \in [1..n -> OutboxRows] } : n \in 0..MaxOutboxes }

\* CustomEmailBackend.__init__ raising for any number of active Outboxes but
\* zero
CustomInitFirstOfSeveral(d) ==
    LET configurations == { o \in d : o.active } IN
    IF Cardinality(configurations) = 0
    THEN [exc |-> "ValueError", configuration_id |-> 0]
    ELSE [exc |-> "none", configuration_id |-> FirstOutbox(configurations).id]

\* CustomEmailBackend.__init__: the Outbox its settings are read from
CustomInit(d) ==
    LET configurations == { o \in d : o.active } IN
    IF Cardinality(configurations) > 1 \/ Cardinality(configurations) = 0
    THEN [exc |-> "ValueError", configuration_id |-> 0]
    ELSE [exc |-> "none", configuration_id |-> FirstOutbox(configurations).id]

\* CustomEmailBackend()
ConstructCustom ==
    /\ res' = [res EXCEPT !["custom"] =
                 [done |-> TRUE, user |-> None, exc |-> CustomInit(db).exc,
                  configuration_id |-> CustomInit(db).configuration_id,
                  held |-> FALSE]]
    /\ UNCHANGED <<dvars, cvars, pvars, lvars, gvars>>

\* open() of a new O365Backend whose from_email is user
OpenO365(user) ==
    /\ \E construct \in {"auth", "raise"} :
         \E r \in { O365Open([NewBackend("o365", FALSE) EXCEPT !.from_email = user],
                             db, construct) } :
           res' = [res EXCEPT !["o365"] =
                     [done |-> TRUE, user |-> user, exc |-> r.exc,
                      configuration_id |-> r.b.configuration_id,
                      held |-> r.b.conn.held]]
    /\ UNCHANGED <<dvars, cvars, pvars, lvars, gvars>>

\* _initialize_connection(user) of a new GmailOAuth2Backend
InitializeGmail(user) ==
    /\ \E r \in { GmailInit(NewBackend("gmail", FALSE), user, db) } :
         res' = [res EXCEPT !["gmail"] =
                   [done |-> TRUE, user |-> user, exc |-> r.exc,
                    configuration_id |-> r.b.configuration_id,
                    held |-> FALSE]]
    /\ UNCHANGED <<dvars, cvars, pvars, lvars, gvars>>

ResolveInit ==
    /\ db \in OutboxTables
    /\ mapping = [x \in Addr |-> None]
    /\ backend = NewBackend("o365", FALSE)
    /\ pc = "idle"
    /\ queue = <<>>
    /\ sent_count = 0
    /\ result = None
    /\ raisedExc = "none"
    /\ okSends = 0
    /\ handed = 0
    /\ live = 0
    /\ it = NoIter
    /\ CacheInit
    /\ PollIdle
    /\ ResolveIdle
    /\ LockIdle
    /\ GoogleIdle

ResolveNext ==
    \/ ConstructCustom
    \/ \E user \in Senders : OpenO365(user)
    \/ \E user \in Senders : InitializeGmail(user)

ResolveSpec == ResolveInit /\ [][ResolveNext]_vars

----------------------------------------------------------------------------
(* The dispatcher: successive send_messages calls on one backend *)

Init ==
    /\ \E kind \in {"o365", "gmail"}, fs \in BOOLEAN :
         /\ backend = NewBackend(kind, fs)
         /\ db \in SUBSET { o \in OutboxUniverse : o.family = kind }
    /\ mapping \in Mappings
    /\ pc = "idle"
    /\ queue = <<>>
    /\ sent_count = 0
    /\ result = None
    /\ raisedExc = "none"
    /\ okSends = 0
    /\ handed = 0
    /\ live = 0
    /\ it = NoIter
    /\ CacheInit
    /\ PollIdle
    /\ ResolveIdle
    /\ LockIdle
    /\ GoogleIdle

\* send_messages(email_messages) up to the loop: the empty batch returns 0,
\* any other batch is sorted by from_email.
EarlyReturnNever(batch) == FALSE

\* if not email_messages: return 0
EarlyReturn(batch) == batch = <<>>

SendMessages ==
    /\ pc \in {"idle", "done", "raised"}
    /\ \E batch \in Batches :
         IF EarlyReturn(batch)
         THEN /\ pc' = "done"
              /\ result' = 0
              /\ queue' = <<>>
         ELSE /\ pc' = "loop"
              /\ result' = None
              /\ queue' = SortBySender(batch)
    /\ sent_count' = 0
    /\ raisedExc' = "none"
    /\ okSends' = 0
    /\ handed' = 0
    /\ it' = NoIter
    /\ UNCHANGED <<db, mapping, backend, live>>
    /\ UNCHANGED <<cvars, pvars, rvars, lvars, gvars>>

PropagatesAlways(exc, fs) == exc # "none"

\* except Exception: if not self.fail_silently: raise
Propagates(exc, fs) == exc # "none" /\ ~fs

\* The end of an iteration r: the exception propagates (fail_silently false),
\* or the loop goes on, or the loop is over and send_messages returns; fin is
\* what the code after the loop did.
EndIteration(r, fin) ==
    /\ sent_count' = sent_count + r.inc
    /\ okSends' = okSends + (IF r.adapterOk THEN 1 ELSE 0)
    /\ handed' = handed + r.handed
    /\ it' = r.info
    /\ queue' = Tail(queue)
    /\ db' = db
    /\ mapping' = mapping
    /\ UNCHANGED <<cvars, pvars, rvars, lvars, gvars>>
    /\ IF Propagates(r.exc, backend.fail_silently)
       THEN /\ pc' = "raised"
            /\ raisedExc' = r.exc
            /\ result' = None
            /\ backend' = r.b
            /\ live' = live - r.rel + r.acq
       ELSE IF Tail(queue) # <<>>
       THEN /\ pc' = "loop"
            /\ raisedExc' = "none"
            /\ result' = None
            /\ backend' = r.b
            /\ live' = live - r.rel + r.acq
       ELSE /\ backend' = fin.b
            /\ live' = live - r.rel + r.acq - fin.rel
            /\ IF fin.exc # "none"
               THEN pc' = "raised" /\ raisedExc' = fin.exc /\ result' = None
               ELSE pc' = "done" /\ raisedExc' = "none"
                    /\ result' = sent_count + r.inc

SendStepO365 ==
    /\ pc = "loop"
    /\ backend.kind = "o365"
    /\ \E construct \in {"auth", "unauth", "none", "raise"}, api \in {"ok", "raise"} :
         LET r == O365Iter(backend, db, mapping, Head(queue), construct, api) IN
         EndIteration(r, [b |-> r.b, exc |-> "none", rel |-> 0])

SendStepGmail ==
    /\ pc = "loop"
    /\ backend.kind = "gmail"
    /\ \E quit \in QuitOutcomes(backend), e \in OpenEnvs,
          send \in {"ok", "false", "raise"} :
         LET r == GmailIter(backend, db, mapping, Head(queue), quit, e, send) IN
         \E quit2 \in QuitOutcomes(r.b) : EndIteration(r, GmailClose(r.b, quit2))

Next == SendMessages \/ SendStepO365 \/ SendStepGmail

Spec == Init /\ [][Next]_vars

----------------------------------------------------------------------------
(* Two threads on one backend instance: one inside send_messages with a
   one-message batch, the other calling close() *)

LockInit ==
    /\ db = OutboxUniverse
    /\ mapping = [x \in Addr |-> None]
    /\ backend \in { NewBackend(kind, fs) : kind \in {"o365", "gmail"},
                                             fs \in BOOLEAN }
    /\ pc = "idle"
    /\ queue = <<>>
    /\ sent_count = 0
    /\ result = None
    /\ raisedExc = "none"
    /\ okSends = 0
    /\ handed = 0
    /\ live = 0
    /\ it = NoIter
    /\ CacheInit
    /\ PollIdle
    /\ ResolveIdle
    /\ LockIdle
    /\ GoogleIdle

\* send_messages: "with self._lock:" is entered; the message's sender is
\* resolved to the identity to send as
SendAcquire ==
    /\ sending.pc = "idle"
    /\ lock = None
    /\ lock' = "sender"
    /\ \E from \in Senders :
         sending' = [pc |-> "check", ident |-> ResolveIdentity(mapping, from),
                     found |-> "none"]
    /\ UNCHANGED <<closing, dvars, cvars, pvars, rvars, gvars>>

\* the identity check and, when it asks for one, the new connection:
\* close(), (_initialize_connection,) open(). The thread goes on to the send,
\* to the end of the loop ("exit": the message was skipped or the exception
\* was swallowed) or out of send_messages with the exception ("raise").
SendEnsure ==
    /\ sending.pc = "check"
    /\ \E construct \in {"auth", "unauth", "none", "raise"},
          quit \in QuitOutcomes(backend), e \in OpenEnvs :
         LET need == NeedsNewConnection(backend, sending.ident)
             after(exc) == IF exc = "none" THEN "send"
                           ELSE IF backend.fail_silently THEN "exit" ELSE "raise"
         IN
         IF ~need
         THEN /\ construct = "auth" /\ e = OpenEnv("ok", "found", "ok", "ok", "ok")
              /\ backend' = backend
              /\ sending' = [sending EXCEPT !.pc = "send"]
         ELSE IF backend.kind = "o365"
         THEN LET op == O365Open([O365Close(backend).b EXCEPT
                                      !.from_email = sending.ident],
                                 db, construct)
              IN /\ e = OpenEnv("ok", "found", "ok", "ok", "ok")
                 /\ backend' = op.b
                 /\ sending' = [sending EXCEPT !.pc = after(op.exc)]
         ELSE LET cl == GmailClose(backend, quit)
                  ini == IF cl.exc = "none" THEN GmailInit(cl.b, sending.ident, db)
                         ELSE [b |-> cl.b, exc |-> cl.exc]
                  op == IF ini.exc = "none" THEN GmailOpen(ini.b, sending.ident, e)
                        ELSE [b |-> ini.b, ret |-> None]
              IN /\ construct = "auth"
                 /\ backend' = op.b
                 /\ sending' = [sending EXCEPT !.pc =
                        IF ini.exc # "none" THEN after(ini.exc)
                        ELSE IF ~op.b.conn.held \/ op.ret = None THEN "exit"
                        ELSE "send"]
    /\ UNCHANGED <<db, mapping, pc, queue, sent_count, result, raisedExc,
                   okSends, handed, live, it>>
    /\ UNCHANGED <<lock, closing, cvars, pvars, rvars, gvars>>

\* self.conn.send_messages([msg], ...) / self._send(message): on a backend
\* whose connection attribute is None the call raises AttributeError
SendSend ==
    /\ sending.pc = "send"
    /\ \E api \in {"ok", "raise"} :
         LET exc == IF ~backend.conn.held THEN "AttributeError"
                    ELSE IF backend.kind = "o365"
                    THEN O365ConnSend(backend.conn, backend.fail_silently, api).exc
                    ELSE IF api = "raise" THEN "SMTPException" ELSE "none"
         IN sending' = [sending EXCEPT
                          !.found = IF backend.conn.held THEN "held" ELSE "gone",
                          !.pc = IF exc # "none" /\ ~backend.fail_silently
                                 THEN "raise" ELSE "exit"]
    /\ UNCHANGED <<lock, closing, dvars, cvars, pvars, rvars, gvars>>

\* the end of send_messages: after the loop the Gmail backend closes the
\* connection it still has; leaving the with block releases the lock
SendLeave ==
    /\ sending.pc \in {"exit", "raise"}
    /\ \E quit \in QuitOutcomes(backend) :
         IF backend.kind = "gmail" /\ sending.pc = "exit"
         THEN backend' = GmailClose(backend, quit).b
         ELSE quit = "ok" /\ backend' = backend
    /\ lock' = None
    /\ sending' = NoSend
    /\ UNCHANGED <<db, mapping, pc, queue, sent_count, result, raisedExc,
                   okSends, handed, live, it>>
    /\ UNCHANGED <<closing, cvars, pvars, rvars, gvars>>

\* O365Backend.close() by the other thread: "with self._lock:" waits until
\* the lock is free
CloseEnter ==
    /\ backend.kind = "o365"
    /\ closing \in {"idle", "done"}
    /\ lock = None
    /\ lock' = "closer"
    /\ closing' = "in"
    /\ UNCHANGED <<sending, dvars, cvars, pvars, rvars, gvars>>

CloseLeave ==
    /\ closing = "in"
    /\ backend' = O365Close(backend).b
    /\ lock' = None
    /\ closing' = "done"
    /\ UNCHANGED <<db, mapping, pc, queue, sent_count, result, raisedExc,
                   okSends, handed, live, it>>
    /\ UNCHANGED <<sending, cvars, pvars, rvars, gvars>>

\* GmailOAuth2Backend.close() by the other thread: the method takes no lock
CloseGmail ==
    /\ backend.kind = "gmail"
    /\ closing \in {"idle", "done"}
    /\ backend.conn.held
    /\ \E quit \in QuitOutcomes(backend) : backend' = GmailClose(backend, quit).b
    /\ closing' = "done"
    /\ UNCHANGED <<db, mapping, pc, queue, sent_count, result, raisedExc,
                   okSends, handed, live, it>>
    /\ UNCHANGED <<lock, sending, cvars, pvars, rvars, gvars>>

LockNext ==
    \/ SendAcquire
    \/ SendEnsure
    \/ SendSend
    \/ SendLeave
    \/ CloseEnter
    \/ CloseLeave
    \/ CloseGmail

LockSpec == LockInit /\ [][LockNext]_vars

----------------------------------------------------------------------------
(* GmailImapTransport.connect and google_api_get *)

\* a counter that stops at its bound
Count(n, max) == IF n < max THEN n + 1 ELSE n

\* token, refresh_token: whether the extra_data of the username's
\* UserSocialAuth holds an access token and a refresh token
GoogleInit ==
    /\ Idle
    /\ CacheInit
    /\ PollIdle
    /\ ResolveIdle
    /\ LockIdle
    /\ goog \in { [NoApi EXCEPT !.token = tk, !.refresh_token = rt] :
                    tk \in {"present", "missing"}, rt \in {"present", "missing"} }

\* connect(username, password) calls _connect_oauth, which reaches its loop
Connect ==
    /\ goog.pc = "idle"
    /\ goog' = [goog EXCEPT !.pc = "loop"]
    /\ UNCHANGED <<dvars, cvars, pvars, rvars, lvars>>

\* one round of "while access_token is None": fetch_user_info calls
\* google_api_get, which reads the access token first; AccessTokenNotFound
\* becomes ValueError and connect turns to the password login
Round ==
    /\ goog.pc = "loop"
    /\ goog' = IF goog.token = "missing"
               THEN [goog EXCEPT !.pc = "password"]
               ELSE [goog EXCEPT !.pc = "request", !.requests = 0,
                                 !.refreshes = 0, !.response = "none",
                                 !.rounds = Count(@, MaxRounds)]
    /\ UNCHANGED <<dvars, cvars, pvars, rvars, lvars>>

\* requests.get in google_api_get: 200 with a JSON body returns the user
\* info and the loop ends with the access token; 401 goes to
\* refresh_authorization; 200 with another body returns r.text and any other
\* status returns None, on both of which ["email"] raises TypeError and the
\* loop goes round again
Request ==
    /\ goog.pc = "request"
    /\ \E response \in {"200 json", "200 text", "401", "other"} :
         goog' = [goog EXCEPT !.response = response,
                              !.requests = Count(@, MaxRequests),
                              !.pc = CASE response = "200 json" -> "authenticate"
                                       [] response = "401" -> "refresh"
                                       [] OTHER -> "loop"]
    /\ UNCHANGED <<dvars, cvars, pvars, rvars, lvars>>

\* refresh_authorization(email), then google_api_get calls itself; a missing
\* refresh token (RefreshTokenNotFound) or a failed token request (the
\* Exception of google_api_post) raises out of connect
Refresh ==
    /\ goog.pc = "refresh"
    /\ \E post \in {"ok", "fail"} :
         goog' = [goog EXCEPT !.refreshes = Count(@, MaxRequests),
                              !.pc = IF goog.refresh_token = "present" /\ post = "ok"
                                     THEN "request" ELSE "raised"]
    /\ UNCHANGED <<dvars, cvars, pvars, rvars, lvars>>

\* server.authenticate("XOAUTH2", ...) and select()
Authenticate ==
    /\ goog.pc = "authenticate"
    /\ \E outcome \in {"ok", "raise"} :
         goog' = IF outcome = "ok"
                 THEN [goog EXCEPT !.pc = "connected", !.via = "oauth"]
                 ELSE [goog EXCEPT !.pc = "raised"]
    /\ UNCHANGED <<dvars, cvars, pvars, rvars, lvars>>

\* the except branch of connect: server.login(username, password)
Login ==
    /\ goog.pc = "password"
    /\ \E outcome \in {"ok", "raise"} :
         goog' = IF outcome = "ok"
                 THEN [goog EXCEPT !.pc = "connected", !.via = "password"]
                 ELSE [goog EXCEPT !.pc = "raised"]
    /\ UNCHANGED <<dvars, cvars, pvars, rvars, lvars>>

GoogleNext == Connect \/ Round \/ Request \/ Refresh \/ Authenticate \/ Login

GoogleSpec == GoogleInit /\ [][GoogleNext]_vars

\* the thread that called connect keeps running
GoogleLive == GoogleSpec /\ WF_vars(GoogleNext)

----------------------------------------------------------------------------
(* Outbox.save, Outbox.clean and the sends that read the saved records *)

\* Outbox.clean(): the ValidationError for a record with both flags set
Clean(use_tls, use_ssl) ==
    IF use_ssl /\ use_tls THEN "ValidationError" ELSE "none"

\* the row a save adds to table d: a gmail Outbox of user "a"; cleaned
\* tells whether clean() has passed the record
NewOutbox(d, use_tls, use_ssl, cleaned) ==
    [id |-> Cardinality(d) + 1, user |-> "a", family |-> "gmail",
     schemeOk |-> TRUE, use_tls |-> use_tls, use_ssl |-> use_ssl,
     cleaned |-> cleaned]

\* Outbox(...).save(), as Outbox.objects.create does it: the row is written
\* as it is; save() does not call clean()
OutboxSave ==
    /\ Cardinality(db) < MaxSaved
    /\ \E use_tls \in BOOLEAN, use_ssl \in BOOLEAN :
         db' = db \cup {NewOutbox(db, use_tls, use_ssl, FALSE)}
    /\ UNCHANGED <<mapping, backend, pc, queue, sent_count, result, raisedExc,
                   okSends, handed, live, it>>
    /\ UNCHANGED <<cvars, pvars, rvars, lvars, gvars>>

\* full_clean() followed by save(), the path of a model form: clean() runs
\* first and a ValidationError keeps the row from being written
OutboxCleanAndSave ==
    /\ Cardinality(db) < MaxSaved
    /\ \E use_tls \in BOOLEAN, use_ssl \in BOOLEAN :
         db' = IF Clean(use_tls, use_ssl) = "none"
               THEN db \cup {NewOutbox(db, use_tls, use_ssl, TRUE)}
               ELSE db
    /\ UNCHANGED <<mapping, backend, pc, queue, sent_count, result, raisedExc,
                   okSends, handed, live, it>>
    /\ UNCHANGED <<cvars, pvars, rvars, lvars, gvars>>

SaveInit ==
    /\ db = {}
    /\ mapping = [x \in Addr |-> None]
    /\ backend = NewBackend("gmail", FALSE)
    /\ pc = "idle"
    /\ queue = <<>>
    /\ sent_count = 0
    /\ result = None
    /\ raisedExc = "none"
    /\ okSends = 0
    /\ handed = 0
    /\ live = 0
    /\ it = NoIter
    /\ CacheInit
    /\ PollIdle
    /\ ResolveIdle
    /\ LockIdle
    /\ GoogleIdle

SaveNext == OutboxSave \/ OutboxCleanAndSave \/ SendMessages \/ SendStepGmail

SaveSpec == SaveInit /\ [][SaveNext]_vars

----------------------------------------------------------------------------
(* Claims about send_messages *)

\* C1: when send_messages returns normally the returned count is the number
\* of messages for which the adapter send reported success, and during the
\* batch the running count grows by exactly one per successful adapter send
\* and never shrinks.
C1_CountEqualsSuccesses ==
    /\ [](pc = "done" => result = okSends)
    /\ [][pc = "loop" =>
            /\ sent_count' - sent_count \in {0, 1}
            /\ sent_count' - sent_count = okSends' - okSends]_vars

C1_Witness == pc = "done" /\ result = 2 /\ handed = 3

\* C2: at every adapter send the backend's from_email, and the identity the
\* held connection was opened for, equal the authentication identity
\* resolved for the message; a new connection is opened only after the old
\* one was released, so the backend never has more than the one it holds.
C2_ConnectionMatchesIdentity ==
    /\ it.called =>
         /\ it.atSend.conn.held
         /\ it.atSend.from_email = it.oauth
         /\ it.atSend.conn.ident = it.oauth
    /\ live = (IF backend.conn.held THEN 1 ELSE 0)

C2_Witness ==
    /\ it.called
    /\ it.reopened
    /\ it.released = 1
    /\ it.acquired = 1
    /\ it.msg.id > 0

\* The scenario of C6: the session is up, the first AUTH XOAUTH2 raises, the
\* refresh succeeds and the retried AUTH succeeds.
RetryScenario ==
    /\ it.open.happened
    /\ it.open.env = OpenEnv("ok", "found", "raise", "ok", "ok")

\* C6: in the retry scenario the open succeeds after exactly one refresh and
\* one retried authenticate (two authenticate calls in all), the message is
\* not skipped but handed to _send, and it is counted when _send reports it
\* sent.
C6_OneRetryThenSent ==
    RetryScenario =>
        /\ it.open.ret = "True"
        /\ it.open.refreshes = 1
        /\ it.open.auths = 2
        /\ it.called
        /\ ~it.skipped
        /\ (it.adapterOk => it.inc = 1)

C6_Witness == RetryScenario /\ it.adapterOk /\ it.inc = 1 /\ sent_count >= 1

\* An O365 adapter send on a connection without a valid token (no account,
\* or an account that is not authenticated).
UnauthenticatedO365Send ==
    /\ backend.kind = "o365"
    /\ it.called
    /\ it.atSend.conn.state # "auth"

----------------------------------------------------------------------------
(* Claims about the ConnectionHandler *)

\* the entries of thread t's storage that hold the instance inst
EntriesOf(t, inst) ==
    { k \in 1..Len(conns[Slot(t)]) : Ident(conns[Slot(t)][k]) = inst }

\* the two latest lookups were made by one thread and both returned an adapter
TwoLookups ==
    /\ hist[1].thread = hist[2].thread
    /\ hist[1].inst # NoInst
    /\ hist[2].inst # NoInst

\* C3: two successive lookups of one alias string by one thread return the
\* same adapter instance, the second lookup constructs and opens nothing, and
\* the thread's storage holds exactly one adapter for the alias, the first
\* one constructed for it.
C3_LookupIdempotent ==
    (TwoLookups /\ hist[1].alias = hist[2].alias) =>
        /\ hist[2].inst = hist[1].inst
        /\ ~hist[2].constructed
        /\ Cardinality(Cached(conns, hist[2].thread, hist[2].alias)) = 1
        /\ \A k \in EntriesOf(hist[2].thread, hist[2].inst) :
             conns[Slot(hist[2].thread)][k].gen = 1

C3_Witness ==
    /\ TwoLookups
    /\ hist[1].alias = hist[2].alias
    /\ hist[1].constructed
    /\ hist[2].inst = hist[1].inst
    /\ hist[2].alias = <<"o365", "???", "a">>

\* a lookup of backend alias A for identity X followed by a lookup, by the
\* same thread, of the same backend alias for another identity Y
IdentityChange ==
    /\ TwoLookups
    /\ ParseAlias(hist[1].alias).real = ParseAlias(hist[2].alias).real
    /\ ParseAlias(hist[1].alias).from_oauth_user # ParseAlias(hist[2].alias).from_oauth_user

\* C4: after an identity change the adapter bound to X has been closed
\* exactly once and holds no connection, and the adapter returned for Y is a
\* new one.
C4_IdentityChangeClosesOld ==
    IdentityChange =>
        /\ hist[2].inst # hist[1].inst
        /\ \A k \in EntriesOf(hist[1].thread, hist[1].inst) :
             /\ conns[Slot(hist[1].thread)][k].closes = 1
             /\ ~conns[Slot(hist[1].thread)][k].b.conn.held

\* C5: what a thread finds in its storage was constructed by that thread and
\* closed by no other thread, a lookup returns to a thread an instance that
\* thread constructed, and a thread's storage holds at most one adapter per
\* alias.
C5_CachePerThread ==
    /\ \A t \in Threads : \A k \in 1..Len(conns[Slot(t)]) :
         /\ conns[Slot(t)][k].creator = t
         /\ conns[Slot(t)][k].closers \subseteq {t}
    /\ \A i \in {1, 2} : hist[i].inst # NoInst => hist[i].inst[1] = hist[i].thread
    /\ \A t \in Threads : \A i, j \in 1..Len(conns[Slot(t)]) :
         conns[Slot(t)][i].alias = conns[Slot(t)][j].alias => i = j

C5_Witness ==
    /\ Len(conns["t1"]) = 1
    /\ Len(conns["t2"]) = 1
    /\ conns["t1"][1].alias = conns["t2"][1].alias
    /\ conns["t1"][1].closers = {"t1"}
    /\ conns["t2"][1].closes = 0
    /\ conns["t2"][1].b.conn.held
    /\ hist[2].thread = "t2"
    /\ hist[2].inst = Ident(conns["t2"][1])
    /\ ~hist[2].constructed

----------------------------------------------------------------------------
(* Claims about test_connection *)

\* C8: no test_connection call raises; each returns a (success, message) pair.
C8_NeverRaises ==
    hc.kind # "none" =>
        /\ hc.raised = "none"
        /\ hc.success \in {"True", "False"}

\* C9: a call that obtained its connection and whose probe raised nothing
\* returns (True, "Successfully connected to ..."); a call in which obtaining
\* the connection or the probe raised returns (False, "Connection failed: "
\* followed by the text of that exception).
C9_ReturnValues ==
    /\ (hc.obtained /\ hc.probe \in {"ok", "skipped"}) =>
         /\ hc.raised = "none"
         /\ hc.success = "True"
         /\ hc.prefix = "Successfully connected to "
    /\ (hc.acquire # "none" \/ hc.probe \notin {"ok", "skipped", "unauth"}) =>
         /\ hc.raised = "none"
         /\ hc.success = "False"
         /\ hc.prefix = "Connection failed: "
         /\ hc.text = (IF hc.acquire # "none" THEN hc.acquire ELSE hc.probe)

\* C10: whenever Outbox.test_connection obtained an adapter, it called
\* close() on it, whatever the probe did, and the adapter holds no
\* connection afterwards.
C10_AlwaysCloses ==
    (hc.kind = "outbox" /\ hc.obtained) =>
        /\ hc.cleanup \notin {"none", "skipped"}
        /\ ~hc.heldAfter
        /\ \A k \in EntriesOf(hc.thread, hc.inst) :
             /\ ~conns[Slot(hc.thread)][k].b.conn.held
             /\ conns[Slot(hc.thread)][k].closes >= 1

C10_Witness ==
    /\ hc.kind = "outbox"
    /\ hc.obtained
    /\ hc.family = "smtp"
    /\ hc.probe = "SMTPServerDisconnected"
    /\ hc.success = "False"
    /\ hc.cleanup = "ok"
    /\ EntriesOf(hc.thread, hc.inst) # {}

----------------------------------------------------------------------------
(* Claims about the end of a batch and about failures in send_messages *)

\* send_messages returned normally after processing a non-empty batch
ReturnedFromBatch == pc = "done" /\ it.msg.id > 0

\* C11: when send_messages returns after a non-empty batch the backend holds
\* no open connection.
C11_NoConnectionAfterBatch ==
    ReturnedFromBatch => (~backend.conn.held /\ live = 0)

\* C12: with fail_silently false, a message whose iteration ended without an
\* exception reaching the caller was not skipped: it was handed to the
\* transport and, when the transport reported it sent, counted. (A message
\* the transport refuses without raising, one without recipients, is not
\* taken as dropped.)
C12_NoSilentDrop ==
    (~backend.fail_silently /\ it.msg.id > 0 /\ pc # "raised") =>
        /\ ~it.skipped
        /\ it.called
        /\ (it.adapterOk => it.inc = 1)

\* C13: with fail_silently true no exception of an iteration reaches the
\* caller and the loop goes on to every remaining message; with
\* fail_silently false the first exception of an iteration reaches the
\* caller at once, leaving the count of the messages already sent as it
\* was, and nothing further of the batch is attempted; a call that returns
\* has gone through the whole batch.
C13_FailSilentlyDecidesPropagation ==
    /\ [](backend.fail_silently => pc # "raised")
    /\ [](pc = "done" => queue = <<>>)
    /\ [][(pc = "loop" /\ backend.fail_silently /\ Len(queue) > 1) =>
            (pc' = "loop" /\ queue' = Tail(queue) /\ it'.msg = Head(queue))]_vars
    /\ [][(pc = "loop" /\ ~backend.fail_silently /\ it'.exc # "none") =>
            /\ pc' = "raised"
            /\ raisedExc' = it'.exc
            /\ sent_count' = sent_count
            /\ handed' >= handed]_vars
    /\ [][pc = "raised" => it' = NoIter]_vars

C13_Witness ==
    /\ backend.fail_silently
    /\ it.exc # "none"
    /\ pc = "loop"
    /\ sent_count >= 1
    /\ Len(queue) >= 1

\* The last iteration tried to acquire a connection and failed: no Outbox
\* matched the identity, or the open did not produce a usable connection.
AcquireFailed == it.reopened /\ ~it.called /\ (it.exc # "none" \/ it.skipped)

\* C14: a failure to acquire a connection reaches the caller at once,
\* whatever fail_silently is.
C14_AcquireFailurePropagates ==
    AcquireFailed => (pc = "raised" /\ raisedExc # "none")

----------------------------------------------------------------------------
(* Claims about closing cached adapters *)

\* C15: a ConnectionHandler.close() by a thread leaves none of that
\* thread's cached adapters with an open connection, also when the close of
\* one of them raises.
C15_CloseAllClosesEverything ==
    [][\A t \in Threads :
         CloseAll(t) =>
           \A k \in 1..Len(conns'[Slot(t)]) : ~conns'[Slot(t)][k].b.conn.held]_vars

\* C16: the adapter a lookup returns has never been closed.
C16_ClosedNeverReturned ==
    \A i \in {1, 2} :
      hist[i].inst # NoInst =>
        \A k \in EntriesOf(hist[i].thread, hist[i].inst) :
          conns[Slot(hist[i].thread)][k].closes = 0

----------------------------------------------------------------------------
(* Claims about the poll checkpoint *)

\* the latest get_new_mail call had a connected transport and returned
PollSucceeded == poll.kind = "returned" /\ poll.connect \in {"auth", "ok"}

\* C17: a successful poll of a mailbox whose last_polling was unset fetched
\* every message available and left last_polling at the time the poll
\* started.
C17_CheckpointAtPollStart ==
    (PollSucceeded /\ poll.before = Unset) =>
        /\ poll.fetched = poll.available
        /\ poll.after = poll.started

\* C18: a successful poll leaves last_polling at the time of that poll, also
\* when it fetched nothing; a poll that had no connection (no URI, or a
\* transport whose connect failed) or that raised leaves last_polling as it
\* was.
C18_CheckpointOnlyOnSuccess ==
    /\ PollSucceeded => poll.after \in {poll.started, poll.ended}
    /\ (poll.kind # "none" /\ ~PollSucceeded) => poll.after = poll.before

----------------------------------------------------------------------------
(* Claims about credential resolution *)

\* C19: the identity resolved for the message of an iteration is the
\* oauth_username mapped to its from_email when a mapping exists and the
\* from_email itself when none does, and no step changes a stored mapping or
\* Outbox.
C19_IdentityResolution ==
    /\ [](it.msg.from \in Senders =>
            /\ mapping[it.msg.from] # None => it.oauth = mapping[it.msg.from]
            /\ mapping[it.msg.from] = None => it.oauth = it.msg.from)
    /\ [][mapping' = mapping /\ db' = db]_vars

\* an iteration resolved a mapped sender to an identity other than itself
C19_Witness ==
    /\ it.msg.from \in Senders
    /\ mapping[it.msg.from] # None
    /\ it.oauth = mapping[it.msg.from]
    /\ it.oauth # it.msg.from

\* the Outboxes an O365 / Gmail resolution for user can use
Candidates(family, user) == { o \in db : o.family = family /\ o.user = user }

\* C20: CustomEmailBackend() raises when no Outbox is active and when more
\* than one is, and reads the only active one otherwise; O365Backend.open
\* and GmailOAuth2Backend._initialize_connection raise ValueError exactly
\* when no Outbox matches, and with one or several matching Outboxes go on
\* with one of them.
C20_ResolutionFailures ==
    /\ res["custom"].done =>
         /\ Cardinality({ o \in db : o.active }) # 1 =>
              res["custom"].exc = "ValueError"
         /\ Cardinality({ o \in db : o.active }) = 1 =>
              /\ res["custom"].exc = "none"
              /\ \E o \in db : o.active /\ o.id = res["custom"].configuration_id
    /\ res["o365"].done =>
         /\ Candidates("o365", res["o365"].user) = {} =>
              res["o365"].exc = "ValueError"
         /\ Candidates("o365", res["o365"].user) # {} =>
              /\ res["o365"].exc # "ValueError"
              /\ res["o365"].exc = "none" => res["o365"].held
    /\ res["gmail"].done =>
         /\ Candidates("gmail", res["gmail"].user) = {} =>
              res["gmail"].exc = "ValueError"
         /\ Candidates("gmail", res["gmail"].user) # {} =>
              /\ res["gmail"].exc = "none"
              /\ \E o \in Candidates("gmail", res["gmail"].user) :
                    o.id = res["gmail"].configuration_id

\* over one table with several active Outboxes, several of them matching,
\* CustomEmailBackend() raised while the O365 and Gmail resolutions went on
C20_Witness ==
    /\ Cardinality({ o \in db : o.active }) > 1
    /\ res["custom"].done /\ res["custom"].exc = "ValueError"
    /\ res["gmail"].done /\ res["gmail"].exc = "none"
    /\ Cardinality(Candidates("gmail", res["gmail"].user)) > 1
    /\ res["o365"].done /\ res["o365"].held

----------------------------------------------------------------------------
(* Claims about the batch as a whole *)

\* C22: a send_messages call with an empty batch returns 0 at once: it runs
\* no iteration, opens and closes nothing, and leaves the backend (its held
\* connection, from_email and configuration_id) and the stored records as
\* they were.
C22_EmptyBatchTouchesNothing ==
    [][(pc # "loop" /\ queue' = <<>>) =>
          /\ pc' = "done"
          /\ result' = 0
          /\ raisedExc' = "none"
          /\ it' = NoIter
          /\ handed' = 0
          /\ backend' = backend
          /\ live' = live
          /\ db' = db
          /\ mapping' = mapping]_vars

\* an empty batch has returned 0 on a backend that holds a connection
C22_Witness ==
    /\ pc = "done"
    /\ result = 0
    /\ it = NoIter
    /\ backend.conn.held
    /\ live = 1

\* C23: the messages of one invocation that share a from_email are processed
\* in the order in which the batch listed them (a message's id is its
\* position in the batch).
C23_SameSenderKeepsBatchOrder ==
    /\ \A i, j \in 1..Len(queue) :
         (i < j /\ queue[i].from = queue[j].from) => queue[i].id < queue[j].id
    /\ \A j \in 1..Len(queue) :
         (pc = "loop" /\ queue[j].from = it.msg.from) => it.msg.id < queue[j].id

\* the sort moved two messages of one sender in front of an earlier message
\* of another sender, and the first of the two has been processed
C23_Witness ==
    /\ pc = "loop"
    /\ it.msg.id = 2
    /\ Len(queue) = 2
    /\ queue[1].id = 3 /\ queue[1].from = it.msg.from
    /\ queue[2].id = 1 /\ queue[2].from # it.msg.from

----------------------------------------------------------------------------
(* Claims about GmailOAuth2Backend.open inside the loop *)

\* the open of the latest iteration got as far as a failed first authenticate
\* and then failed in the refresh or in the retried authenticate
RetryFailed ==
    /\ it.open.happened
    /\ it.open.env.smtp = "ok" /\ it.open.env.social = "found"
    /\ it.open.env.auth1 = "raise"
    /\ it.open.env.refresh = "raise" \/ it.open.env.auth2 = "raise"

C25_SendOnlyWhenAuthenticated ==
    (backend.kind = "gmail" /\ it.called) =>
        /\ it.atSend.conn.held
        /\ it.atSend.conn.state = "auth"

----------------------------------------------------------------------------
(* Claims about connections left behind *)

\* C26: when send_messages has propagated an exception, and when it has
\* returned after an open that failed on an established session, the backend
\* holds no connection and every connection it opened has been released.
C26_NoLeakOnFailure ==
    /\ pc = "raised" => (~backend.conn.held /\ live = 0)
    /\ (pc = "done" /\ it.open.happened /\ it.open.ret = None) =>
           (~backend.conn.held /\ live = 0)

\* C27: whenever Mailbox.test_connection obtained a transport connection, it
\* closed it before returning, whatever the probe did.
C27_MailboxCheckCloses ==
    (hc.kind = "mailbox" /\ hc.obtained) =>
        /\ hc.cleanup \notin {"none", "skipped"}
        /\ ~hc.heldAfter

----------------------------------------------------------------------------
(* Claims about what Outbox.test_connection tests *)

\* the latest check was of an office365 or gmail Outbox whose record is well
\* formed, and every collaborator did its part: the account construction
\* gave an authenticated account, the SMTP connect, the social-account query,
\* noop() and quit() succeeded
NominalOAuthCheck ==
    /\ hc.kind = "outbox"
    /\ hc.family \in {"o365", "gmail"}
    /\ \E o \in db : o.family = hc.family /\ o.user = hc.user /\ o.schemeOk
    /\ hc.given.env = [construct |-> "auth", smtp |-> "ok", social |-> "found"]
    /\ hc.given.noop = "ok"
    /\ hc.given.quit = "ok"

\* C28: Outbox.test_connection of a correctly configured, authenticated
\* office365 or gmail Outbox obtains an adapter for that Outbox and reports
\* success.
C28_ConfiguredOutboxSucceeds ==
    NominalOAuthCheck =>
        /\ hc.obtained
        /\ hc.acquire = "none"
        /\ hc.success = "True"

\* C29: Outbox.test_connection of a well-formed office365 Outbox whose O365
\* account is built but not authenticated returns (False, "Office365
\* connection not authenticated").
C29_UnauthenticatedO365Reported ==
    (/\ hc.kind = "outbox"
     /\ hc.family = "o365"
     /\ \E o \in db : o.family = "o365" /\ o.user = hc.user /\ o.schemeOk
     /\ hc.given.env.construct = "unauth"
     /\ hc.raised = "none") =>
        /\ hc.probe = "unauth"
        /\ hc.success = "False"
        /\ hc.prefix = "Office365 connection not authenticated"

\* C30: a poll of an O365 mailbox whose account is not authenticated raises
\* O365NotAuthenticated out of get_new_mail, fetches no message although
\* messages may be waiting, leaves last_polling as it was, and starts no
\* authentication of its own.
C30_UnauthenticatedPollRaises ==
    (poll.kind # "none" /\ poll.connect = "unauth") =>
        /\ poll.kind = "raised"
        /\ poll.exc = "O365NotAuthenticated"
        /\ poll.fetched = {}
        /\ poll.after = poll.before
        /\ mailbox.last_polling = poll.before
        /\ poll.auths = 0

\* after a successful poll, a later poll found the account unauthenticated
\* while a message was waiting
C30_Witness ==
    /\ poll.connect = "unauth"
    /\ poll.kind = "raised"
    /\ poll.before # Unset
    /\ \E r \in poll.available : r > poll.before

----------------------------------------------------------------------------
(* Claims about Outbox validation *)

\* C21: no iteration of send_messages holds a session opened for, or calls
\* _send with, an Outbox record whose email_use_tls and email_use_ssl are both
\* set.
C21_BothFlagsNeverUsed ==
    \A o \in db :
        (o.use_tls /\ o.use_ssl /\ it.atSend.configuration_id = o.id) =>
            (~it.atSend.conn.held /\ ~it.called)

----------------------------------------------------------------------------
(* Claims about GmailOAuth2Backend.close *)

\* C31: a close that quits a held session swallows a disconnect or SSL error
\* of quit(), raises another SMTPException exactly when fail_silently is
\* false, and in every case leaves the backend without a connection.
C31_CloseErrors ==
    (backend.kind = "gmail" /\ it.close.quitting) =>
        /\ it.close.quit \in {"ok", "disconnected"} => it.close.exc = "none"
        /\ it.close.quit = "smtpexc" =>
             /\ backend.fail_silently => it.close.exc = "none"
             /\ ~backend.fail_silently =>
                  (it.close.exc = "SMTPException" /\ pc = "raised"
                   /\ raisedExc = "SMTPException")
        /\ ~it.close.held

\* with fail_silently true a close met an SMTPException in quit() and
\* returned normally
C31_Witness ==
    /\ backend.kind = "gmail"
    /\ backend.fail_silently
    /\ it.close.quitting
    /\ it.close.quit = "smtpexc"
    /\ it.close.exc = "none"
    /\ pc # "raised"

-----------------------------------------------------------------------------
(* Claims about the O365 backend's bookkeeping *)

\* C34: whenever the O365 backend holds a connection, its configuration_id is
\* the id of the office365 Outbox of the identity the connection was built
\* for (so that a second open for the same Outbox returns at once).
C34_HeldConnectionKnowsItsOutbox ==
    (backend.kind = "o365" /\ backend.conn.held) =>
        \E o \in MatchingOutboxes(db, "o365", backend.conn.ident) :
            backend.configuration_id = o.id

\* C40: O365Connection.send_messages called with fail_silently true raises
\* nothing, whatever the state of the connection, and returns zero when the
\* account is not authenticated.
C40_SilentSendNeverRaises ==
    (backend.kind = "o365" /\ backend.fail_silently /\ it.called) =>
        /\ it.exc = "none"
        /\ it.atSend.conn.state # "auth" => it.handed = 0

-----------------------------------------------------------------------------
(* Claims about ConnectionHandler lookups *)

\* the adapters in the maps that no close() has touched since their lookup
FreshEntries ==
    { e \in UNION { { conns[t][k] : k \in 1..Len(conns[t]) } : t \in Threads } :
        e.closes = 0 }

\* C33: a stored adapter is of the backend named before the separator; for
\* "<backend>???<email>" it has from_email = <email> and no from_oauth_user,
\* for "<backend>;;;<identity>" it has from_oauth_user = <identity> and no
\* from_email, and for an unqualified alias it has neither.
C33_AliasSplitOnSeparators ==
    \A e \in FreshEntries :
        /\ <<e.alias[1]>> \in DOMAIN Registry
        /\ e.b.kind = Registry[<<e.alias[1]>>]
        /\ Len(e.alias) \in {1, 3}
        /\ (Len(e.alias) = 3 /\ e.alias[2] = "???") =>
               (e.b.from_email = e.alias[3] /\ e.b.from_oauth_user = None)
        /\ (Len(e.alias) = 3 /\ e.alias[2] = ";;;") =>
               (e.b.from_oauth_user = e.alias[3] /\ e.b.from_email = None)
        /\ Len(e.alias) = 1 =>
               (e.b.from_email = None /\ e.b.from_oauth_user = None)

C33_Witness ==
    /\ \E e \in FreshEntries : e.alias = <<"o365", "???", "a">> /\ e.b.from_email = "a"
    /\ \E e \in FreshEntries : e.alias = <<"smtp">>

\* C35: every adapter stored in a map by a lookup, and not closed since, holds
\* an opened and authenticated connection.
C35_StoredAdaptersAreOpened ==
    \A e \in FreshEntries : e.b.conn.held /\ e.b.conn.state = "auth"

\* C36: a lookup that raises leaves every thread's map as it was.
C36_FailedLookupKeepsMap ==
    [][(hist'[2].thread # None /\ hist'[2].inst = NoInst) => conns' = conns]_vars

C36_Witness ==
    /\ hist[2].thread # None
    /\ hist[2].inst = NoInst
    /\ hist[2].alias = <<"o365", ";;;", "a">>
    /\ hist[1].alias = <<"nope">>
    /\ hist[1].inst = NoInst
    /\ Total(conns) > 0

-----------------------------------------------------------------------------
(* Claims about concurrent use of one backend *)

\* C32: while a thread is inside send_messages, past the identity check and
\* about to send, no close by another thread has taken the connection away:
\* the send finds the connection the check left.
C32_NoTeardownDuringSend ==
    /\ sending.pc = "send" => backend.conn.held
    /\ sending.found # "gone"

-----------------------------------------------------------------------------
(* Claims about polling across time *)

\* C37: no message of a configured O365 mailbox (uri and from_email set) is
\* lost: a message in the Inbox has been returned by a get_new_mail call, or
\* the next query still selects it (no poll has completed yet, or the message
\* is newer than last_polling).
C37_NoMessageLost ==
    (mailbox.type = "office365" /\ mailbox.uri /\ mailbox.from_email) =>
        \A r \in inbox :
            \/ r \in delivered
            \/ mailbox.last_polling = Unset
            \/ r > mailbox.last_polling

-----------------------------------------------------------------------------
(* Claims about termination *)

\* C38: one call of google_api_get refreshes the token at most once and sends
\* at most two requests, however often the server answers 401.
C38_OneRefreshOneRetry ==
    /\ goog.refreshes <= 1
    /\ goog.requests <= 2

\* C39: a connect that has entered the OAuth2 loop ends: it establishes a
\* session or raises.
C39_ConnectTerminates ==
    (goog.pc = "loop") ~> (goog.pc \in {"connected", "raised"})
====
